---- MODULE Spec2Model ----
(***************************************************************************)
(* pdf-tools: the file intake / merge pipeline.                            *)
(*                                                                         *)
(*   PdfManager              src/src/app/services/pdf-manager.service.ts   *)
(*   PdfMergerService        src/src/app/services/pdf-merger.service.ts    *)
(*   PdfValidationService    src/src/app/services/pdf-validation.service.ts*)
(*   ImageCompressionService src/unnamed/part_001                          *)
(*   PdfImageViewerComponent src/unnamed/part_003 (lines 200-302)          *)
(*                                                                         *)
(* Everything runs on one event loop.  An action is one task of the loop:  *)
(* a handler runs to its first suspension point, a continuation runs to    *)
(* the next one.  Continuations of already settled promises sit in the     *)
(* microtask queue, which drains before the loop takes any other event.    *)
(***************************************************************************)
EXTENDS Integers, Sequences, FiniteSets, TLC

VARIABLES
    managedFiles,      \* PdfManager.managedFiles: the signal's current array
    compressionCache,  \* ImageCompressionService.compressionCache
    encoding,          \* calls of the external encoder that have not settled
    microtasks,        \* continuations of _compressFileInBackground, queued
    ghost,             \* history, parallel to managedFiles: serial, states seen
    nextSerial,        \* history: serial number of the next entry to be added
    lastOp,            \* history: the task the loop ran last
    req,               \* the mergeAndDownload request in progress, if any
    asm,               \* the mergeFilesToPdf call in progress, if any
    calls,             \* history: how often the request called its collaborators
    cmp,               \* history: the compressImage calls made on the service itself
    val,               \* the validatePdf call in progress, if any
    pv,                \* PdfVisualizationService: its three signals
    urls,              \* history: the object URLs created, each live or revoked
    pend               \* PdfManager.openPreview calls that have not settled

intakeVars == <<managedFiles, compressionCache, encoding, microtasks, ghost,
                nextSerial, lastOp>>
auxVars == <<cmp, val, pv, urls, pend>>

-----------------------------------------------------------------------------
(* Bounds of the model.                                                    *)

MaxAdds == 2      \* entries ever added by addFiles
MaxBatch == 2     \* files in one addFiles call
MaxList == 3      \* entries in the collection when a merge is requested
MaxFiles == 3     \* files handed to mergeFilesToPdf directly
MaxCalls == 2     \* compressImage calls made on the service directly
MaxClears == 1    \* clearCache calls
MaxValidations == 2   \* validatePdf calls made on the service directly
MaxUrls == 7      \* openPreview calls made on the preview service directly
MaxPreviews == 2  \* PdfManager.openPreview calls
MaxPreviewOps == 3    \* entries added plus previews requested, beside each other
MaxSide == 6      \* width and height, in pixels, of an image drawn on a page

-----------------------------------------------------------------------------
(* Files.  A File is its name, declared media type, byte size, modification*)
(* time and an abstract tag for its bytes.                                 *)

MiB == 1024 * 1024

PDF_TYPE == "application/pdf"
JPEG_TYPE == "image/jpeg"
PNG_TYPE == "image/png"

File(name, type, size, content) ==
    [name |-> name, type |-> type, size |-> size, lastModified |-> 0,
     content |-> content]

PdfA == File("a.pdf", PDF_TYPE, 3 * MiB, "plain")
BigJpg == File("b.jpg", JPEG_TYPE, 10 * MiB, "image")
SmallPng == File("c.png", PNG_TYPE, 100 * 1024, "image")
PdfP == File("p.pdf", PDF_TYPE, 4 * MiB, "plain")
PdfQ == File("q.pdf", PDF_TYPE, 4 * MiB + 1, "plain")
PdfE == File("e.pdf", PDF_TYPE, MiB, "encrypt")
PdfX == File("x.pdf", PDF_TYPE, MiB, "badHeader")
GifImg == File("g.gif", "image/gif", 100 * 1024, "image")
PdfS == File("s.pdf", PDF_TYPE, MiB, "plain")
SmallPngLater == [SmallPng EXCEPT !.lastModified = 7]
EdgePng == File("d.png", PNG_TYPE, 500 * 1024, "image")
\* an encrypted PDF whose /Encrypt entry lies beyond the first 10000 bytes
PdfL == File("l.pdf", PDF_TYPE, MiB, "encryptLate")

\* file.name.toLowerCase().endsWith(ext), for the names of the model
NameEndsWith(name, ext) ==
    CASE ext = ".pdf" -> name \in {"a.pdf", "p.pdf", "q.pdf", "e.pdf", "x.pdf", "s.pdf",
                                  "l.pdf"}
      [] ext = ".jpg" -> name \in {"b.jpg"}
      [] ext = ".png" -> name \in {"c.png", "d.png"}
      [] ext = ".jpeg" -> name \in {"j.jpeg"}
      [] OTHER -> FALSE

\* file.type.startsWith('image/')
TypeIsImage(type) == type \in {JPEG_TYPE, PNG_TYPE, "image/gif"}

IsImageFile(file) ==
    \/ TypeIsImage(file.type)
    \/ NameEndsWith(file.name, ".png")
    \/ NameEndsWith(file.name, ".jpg")
    \/ NameEndsWith(file.name, ".jpeg")

IsPdfFile(file) == file.type = PDF_TYPE \/ NameEndsWith(file.name, ".pdf")

\* the filter of onFileSelected: isPdf || isImage
IntakeAdmits(file) ==
    \/ file.type = PDF_TYPE \/ NameEndsWith(file.name, ".pdf")
    \/ TypeIsImage(file.type)

\* the files a user adds in the intake model
IntakeFiles == {PdfA, BigJpg, SmallPng}

\* generateUniqueId: Math.random().toString(36).substring(2, 9); any string
\* of the pool may come out of any call
IdPool == {"id1", "id2"}

-----------------------------------------------------------------------------
(* ImageCompressionService                                                 *)

MutSkipBelowBytes == 50 * 1024

SKIP_BELOW_BYTES == 500 * 1024

MutGetCacheKey(file) == <<file.name, file.size>>

\* `${file.name}_${file.size}_${file.lastModified}`
GetCacheKey(file) == <<file.name, file.size, file.lastModified>>

\* what the external encoder may hand back for a file: same name and type,
\* new bytes of some size
EncoderSizes == {2 * MiB, 11 * MiB}
EncodedFile(file, size) ==
    [file EXCEPT !.size = size, !.lastModified = 1, !.content = "recompressed"]

\* compressionRatio is kept as the exact fraction <<numerator, denominator>>
CompressionResult(originalSize, compressedSize, compressedFile) ==
    [originalSize |-> originalSize, compressedSize |-> compressedSize,
     compressionRatio |-> <<originalSize - compressedSize, originalSize>>,
     compressedFile |-> compressedFile]

SkipResult(file) ==
    [originalSize |-> file.size, compressedSize |-> file.size,
     compressionRatio |-> <<0, 1>>, compressedFile |-> file]

EncoderCauses == {"encoder failed"}
CompressErrorMessage(file, cause) == <<"Erro ao comprimir imagem", file.name, cause>>

ProgressSteps == {50, 100}

-----------------------------------------------------------------------------
(* PdfManager: the collection and its background tasks                     *)

\* { ...f, ...updates }
Spread(f, updates) ==
    [k \in (DOMAIN f) \cup (DOMAIN updates) |->
        IF k \in DOMAIN updates THEN updates[k] ELSE f[k]]

UpdateFileState(mfs, fileId, updates) ==
    [i \in 1..Len(mfs) |->
        IF mfs[i].id = fileId THEN Spread(mfs[i], updates) ELSE mfs[i]]

\* history kept beside UpdateFileState: the states written to each entry
GhostUpdate(mfs, gh, fileId, updates) ==
    [i \in 1..Len(gh) |->
        IF mfs[i].id = fileId /\ "state" \in DOMAIN updates
        THEN [gh[i] EXCEPT !.observed = Append(@, updates.state)]
        ELSE gh[i]]

\* the state a handler works on, threaded through its statements
Upd(w, fileId, updates) ==
    [w EXCEPT !.mf = UpdateFileState(w.mf, fileId, updates),
              !.gh = GhostUpdate(w.mf, w.gh, fileId, updates)]

\* onProgress of _compressFileInBackground: 20 + progress * 0.6
\* (exact for the multiples of 5 the model uses)
MapProgress(progress) == 20 + (progress * 6) \div 10

NewManagedFile(id, file) ==
    [id |-> id, file |-> file, state |-> "unprocessed", progress |-> 0]

\* compressImage up to its first suspension, called by task `serial`.  The
\* continuation it leaves carries, as history, the path the call took and the
\* values compressImage itself passed to options.onProgress.
CompressImage(w, serial, id, file) ==
    LET key == GetCacheKey(file) IN
    IF key \in DOMAIN w.cache
    THEN LET w1 == Upd(w, id, [progress |-> MapProgress(100)]) IN
         [w1 EXCEPT !.mt = Append(@, [serial |-> serial, id |-> id, file |-> file,
                                      removed |-> FALSE, settled |-> "resolved",
                                      result |-> w.cache[key],
                                      path |-> "cache", onProgress |-> <<100>>])]
    ELSE IF file.size < SKIP_BELOW_BYTES
    THEN LET w1 == Upd(w, id, [progress |-> MapProgress(100)])
             result == SkipResult(file) IN
         [w1 EXCEPT !.cache = [k \in (DOMAIN @) \cup {key} |->
                                  IF k = key THEN result ELSE @[k]],
                    !.mt = Append(@, [serial |-> serial, id |-> id, file |-> file,
                                      removed |-> FALSE, settled |-> "resolved",
                                      result |-> result,
                                      path |-> "skip", onProgress |-> <<100>>])]
    ELSE [w EXCEPT !.enc = @ \cup {[serial |-> serial, id |-> id, file |-> file,
                                    p |-> 0, removed |-> FALSE]}]

\* _compressFileInBackground up to its first suspension
CompressFileInBackground(w, serial, id, file) ==
    LET w1 == Upd(w, id, [state |-> "compressing", progress |-> 20]) IN
    IF ~IsImageFile(file)
    THEN Upd(w1, id, [state |-> "compressed", progress |-> 100])
    ELSE CompressImage(w1, serial, id, file)

RECURSIVE StartAll(_, _, _, _, _)
StartAll(w, serial, ids, files, k) ==
    IF k > Len(files) THEN w
    ELSE StartAll(CompressFileInBackground(w, serial + k - 1, ids[k], files[k]),
                  serial, ids, files, k + 1)

Work == [mf |-> managedFiles, cache |-> compressionCache, enc |-> encoding,
         mt |-> microtasks, gh |-> ghost]

Commit(w) ==
    /\ managedFiles' = w.mf
    /\ compressionCache' = w.cache
    /\ encoding' = w.enc
    /\ microtasks' = w.mt
    /\ ghost' = w.gh

SeqsUpTo(S, n) == UNION {[1..k -> S] : k \in 1..n}

\* addFiles(files): the ids are the values generateUniqueId returned
AddFiles(files, ids) ==
    /\ microtasks = <<>>
    /\ Len(ids) = Len(files)
    /\ nextSerial + Len(files) - 1 <= MaxAdds
    /\ LET new == [k \in 1..Len(files) |-> NewManagedFile(ids[k], files[k])]
           newGhost == [k \in 1..Len(files) |->
                           [serial |-> nextSerial + k - 1,
                            observed |-> <<"unprocessed">>]]
           w0 == [Work EXCEPT !.mf = managedFiles \o new, !.gh = ghost \o newGhost]
       IN Commit(StartAll(w0, nextSerial, ids, files, 1))
    /\ nextSerial' = nextSerial + Len(files)
    /\ lastOp' = [op |-> "addFiles", serial |-> 0, removed |-> FALSE]

MutKeep(s, fileId) ==
    {i \in 1..Len(s) : managedFiles[i].id # fileId \/ managedFiles[i].state = "compressing"}

\* current.filter((f) => f.id !== fileId): the indices that stay
Keep(s, fileId) == {i \in 1..Len(s) : managedFiles[i].id # fileId}

RECURSIVE Filter(_, _, _)
Filter(s, keep, i) ==
    IF i > Len(s) THEN <<>>
    ELSE (IF i \in keep THEN <<s[i]>> ELSE <<>>) \o Filter(s, keep, i + 1)

\* history: the entries removeFile(fileId) deletes
RemovedSerials(fileId) ==
    {ghost[i].serial : i \in {k \in 1..Len(ghost) : managedFiles[k].id = fileId}}

\* removeFile(fileId)
RemoveFile(fileId) ==
    /\ microtasks = <<>>
    /\ managedFiles' = Filter(managedFiles, Keep(managedFiles, fileId), 1)
    /\ ghost' = Filter(ghost, Keep(managedFiles, fileId), 1)
    /\ encoding' = {[job EXCEPT !.removed = @ \/ job.serial \in RemovedSerials(fileId)] :
                        job \in encoding}
    /\ lastOp' = [op |-> "removeFile", serial |-> 0, removed |-> FALSE]
    /\ UNCHANGED <<compressionCache, microtasks, nextSerial>>

\* the encoder reports progress to the callback compressImage passed on
EncoderProgress(job, p) ==
    /\ microtasks = <<>>
    /\ job \in encoding
    /\ p > job.p
    /\ LET w == Upd(Work, job.id, [progress |-> MapProgress(p)]) IN
       /\ managedFiles' = w.mf
       /\ ghost' = w.gh
    /\ encoding' = (encoding \ {job}) \cup {[job EXCEPT !.p = p]}
    /\ lastOp' = [op |-> "progress", serial |-> job.serial, removed |-> job.removed]
    /\ UNCHANGED <<compressionCache, microtasks, nextSerial>>

\* the encoder's promise resolves: compressImage caches and returns its result
EncoderResolve(job, size) ==
    /\ microtasks = <<>>
    /\ job \in encoding
    /\ LET compressedFile == EncodedFile(job.file, size)
           result == CompressionResult(job.file.size, compressedFile.size, compressedFile)
           key == GetCacheKey(job.file)
       IN /\ compressionCache' = [k \in (DOMAIN compressionCache) \cup {key} |->
                                     IF k = key THEN result ELSE compressionCache[k]]
          /\ microtasks' = <<[serial |-> job.serial, id |-> job.id, file |-> job.file,
                              removed |-> job.removed, settled |-> "resolved",
                              result |-> result,
                              path |-> "encoder", onProgress |-> <<>>]>>
    /\ encoding' = encoding \ {job}
    /\ lastOp' = [op |-> "encoded", serial |-> job.serial, removed |-> job.removed]
    /\ UNCHANGED <<managedFiles, ghost, nextSerial>>

\* the encoder's promise rejects: compressImage rethrows with the file's name
EncoderReject(job, cause) ==
    /\ microtasks = <<>>
    /\ job \in encoding
    /\ microtasks' = <<[serial |-> job.serial, id |-> job.id, file |-> job.file,
                        removed |-> job.removed, settled |-> "rejected",
                        message |-> CompressErrorMessage(job.file, cause),
                        path |-> "encoder", onProgress |-> <<>>]>>
    /\ encoding' = encoding \ {job}
    /\ lastOp' = [op |-> "encoderFailed", serial |-> job.serial,
                  removed |-> job.removed]
    /\ UNCHANGED <<managedFiles, compressionCache, ghost, nextSerial>>

MutResumeUpdates(t) ==
    IF t.settled = "resolved"
    THEN [state |-> "compressed", compressedFile |-> t.result.compressedFile,
          progress |-> 100]
    ELSE [progress |-> 100]

\* _compressFileInBackground after its await: success, or the catch block
ResumeUpdates(t) ==
    IF t.settled = "resolved"
    THEN [state |-> "compressed", compressedFile |-> t.result.compressedFile,
          progress |-> 100]
    ELSE [state |-> "error", error |-> t.message, progress |-> 100]

RunMicrotask ==
    /\ microtasks # <<>>
    /\ LET t == Head(microtasks)
           w == Upd(Work, t.id, ResumeUpdates(t))
       IN /\ managedFiles' = w.mf
          /\ ghost' = w.gh
          /\ lastOp' = [op |-> IF t.settled = "resolved" THEN "compressed" ELSE "failed",
                        serial |-> t.serial, removed |-> t.removed]
    /\ microtasks' = Tail(microtasks)
    /\ UNCHANGED <<compressionCache, encoding, nextSerial>>

\* PdfVisualizationService.closePreview(), reached through PdfManager: the
\* current object URL is revoked and the three signals are reset
ClosePreviewNow ==
    /\ pv' = [isPreviewOpen |-> FALSE, previewContent |-> <<>>,
              isPasswordProtected |-> FALSE]
    /\ urls' = IF pv.previewContent # <<>>
               THEN [urls EXCEPT ![pv.previewContent[1].url] = "revoked"]
               ELSE urls

\* ngOnDestroy of the viewer component: closePreview(), managedFiles.set([])
\* (taken when it changes something)
NgOnDestroy ==
    /\ microtasks = <<>>
    /\ managedFiles # <<>> \/ pv.isPreviewOpen
    /\ ClosePreviewNow
    /\ managedFiles' = <<>>
    /\ ghost' = <<>>
    /\ lastOp' = [op |-> "ngOnDestroy", serial |-> 0, removed |-> FALSE]
    /\ UNCHANGED <<compressionCache, encoding, microtasks, nextSerial>>

-----------------------------------------------------------------------------
(* PdfValidationService                                                    *)

\* the first five bytes are '%PDF-'
HasPdfHeader(file) == file.content \in {"plain", "encrypt", "encryptLate"}
\* '/Encrypt' occurs in the first 10000 bytes
HasEncryptMarker(file) == file.content = "encrypt"

\* how file.arrayBuffer() may end, and how pdfjs.getDocument raced against the
\* 3 s timer may end ("ok", or the message of the error)
ReadOutcomes == {"ok", "unreadable"}
LoadOutcomes == {"ok", "No password given", "Authentication failed", "timeout",
                 "Invalid PDF structure"}

MutMsgIncludes(msg, marker) ==
    CASE marker = "password" -> msg = "No password given"
      [] marker = "Authentication" -> msg = "Authentication failed"
      [] OTHER -> FALSE

\* errorMsg.includes(marker), for the messages of the model
MsgIncludes(msg, marker) ==
    CASE marker = "password" -> msg = "No password given"
      [] marker = "Authentication" -> msg = "Authentication failed"
      [] marker = "timeout" -> msg = "timeout"
      [] OTHER -> FALSE

HEADER_ERROR == "Arquivo nao e um PDF valido (header invalido)"
PASSWORD_ERROR == "PDF esta protegido por senha"

MutCheckPdfEncryption(file, load) ==
    IF ~HasPdfHeader(file)
    THEN [isValid |-> FALSE, isEncrypted |-> FALSE, requiresPassword |-> FALSE,
          fileSize |-> file.size, fileType |-> file.type, error |-> HEADER_ERROR]
    ELSE IF HasEncryptMarker(file) /\ load # "ok"
    THEN [isValid |-> TRUE, isEncrypted |-> FALSE, requiresPassword |-> TRUE,
          fileSize |-> file.size, fileType |-> file.type, error |-> PASSWORD_ERROR]
    ELSE [isValid |-> TRUE, isEncrypted |-> FALSE, requiresPassword |-> FALSE,
          fileSize |-> file.size, fileType |-> file.type]

CheckPdfEncryption(file, load) ==
    IF ~HasPdfHeader(file)
    THEN [isValid |-> FALSE, isEncrypted |-> FALSE, requiresPassword |-> FALSE,
          fileSize |-> file.size, fileType |-> file.type, error |-> HEADER_ERROR]
    ELSE IF /\ HasEncryptMarker(file)
            /\ load # "ok"
            /\ \/ MsgIncludes(load, "password")
               \/ MsgIncludes(load, "Authentication")
               \/ MsgIncludes(load, "timeout")
    THEN [isValid |-> TRUE, isEncrypted |-> TRUE, requiresPassword |-> TRUE,
          fileSize |-> file.size, fileType |-> file.type, error |-> PASSWORD_ERROR]
    ELSE [isValid |-> TRUE, isEncrypted |-> FALSE, requiresPassword |-> FALSE,
          fileSize |-> file.size, fileType |-> file.type]

ValidatePdf(file, read, load) ==
    IF read # "ok"
    THEN [isValid |-> FALSE, isEncrypted |-> FALSE, requiresPassword |-> FALSE,
          error |-> read]
    ELSE CheckPdfEncryption(file, load)

\* the outcomes of the trial load that can occur for a file
LoadOutcomesOf(file) ==
    IF HasPdfHeader(file) /\ HasEncryptMarker(file) THEN LoadOutcomes ELSE {"ok"}

-----------------------------------------------------------------------------
(* PdfMergerService.mergeFilesToPdf: the frame `asm` of one call           *)

MAX_TOTAL_SIZE_BYTES == 7 * 1024 * 1024

RECURSIVE SumSizes(_, _)
\* files.reduce((sum, file) => sum + file.size, 0), from index k on
SumSizes(files, k) ==
    IF k > Len(files) THEN 0 ELSE files[k].size + SumSizes(files, k + 1)

\* (bytes / (1024 * 1024)).toFixed(2), as a number of hundredths
ToFixed2MB(bytes) ==
    (bytes \div MiB) * 100 + ((bytes % MiB) * 200 + MiB) \div (2 * MiB)

MutExceedsBudget(totalSize) == totalSize >= MAX_TOTAL_SIZE_BYTES

ExceedsBudget(totalSize) == totalSize > MAX_TOTAL_SIZE_BYTES

\* the pages of the PDFs of the model
PageCount(file) == IF file.name = "a.pdf" THEN 2 ELSE 1
\* externalPdf.getPageIndices()
GetPageIndices(file) == [k \in 1..PageCount(file) |-> k]
\* pdfDoc.copyPages(externalPdf, pageIndices)
CopyPages(file, pageIndices) ==
    [k \in 1..Len(pageIndices) |-> [src |-> file.name, page |-> pageIndices[k]]]
\* the page addImageToPage creates and draws the image on
ImagePage(file) == [src |-> file.name, page |-> 0]

MutAddPages(pdfDoc, pages) == pages \o pdfDoc

\* pages.forEach((page) => pdfDoc.addPage(page))
AddPages(pdfDoc, pages) == pdfDoc \o pages

MergerIsImageFile(fileType) == fileType = JPEG_TYPE \/ fileType = PNG_TYPE

\* how file.arrayBuffer() and then PDFDocument.load / embedJpg / embedPng may
\* end for a file
CodecOutcomes(file) ==
    IF file.content = "encrypt" THEN {"fail", "unreadable"}
    ELSE IF file.type = PDF_TYPE \/ MergerIsImageFile(file.type)
    THEN {"ok", "fail", "unreadable"}
    ELSE {"ok", "unreadable"}      \* no codec is called for other types

\* how pdfDoc.save() may end
SaveOutcomes == {"ok", "fail"}

\* codecs is history: how the read and the codec ended for each file so far
IdleAsm == [pc |-> "idle", files |-> <<>>, j |-> 0, pdfDoc |-> <<>>,
            bytes |-> <<>>, error |-> "", codecs |-> <<>>]

\* mergeFilesToPdf up to the loop: validateFiles, validateTotalSize, create
AsmBegin ==
    /\ asm.pc = "called"
    /\ asm' =
         IF Len(asm.files) = 0
         THEN [asm EXCEPT !.pc = "rejected", !.error = "No files provided to merge"]
         ELSE IF ExceedsBudget(SumSizes(asm.files, 1))
         THEN [asm EXCEPT !.pc = "rejected",
                          !.error = "Total file size exceeds maximum allowed size"]
         ELSE [asm EXCEPT !.pc = "process", !.j = 1, !.pdfDoc = <<>>]

MutProcessFile(a, codec) ==
    LET file == a.files[a.j]
        next == IF a.j = Len(a.files) THEN "save" ELSE "process"
        pages == IF codec # "ok" THEN <<>>
                 ELSE IF file.type = PDF_TYPE THEN CopyPages(file, GetPageIndices(file))
                 ELSE IF MergerIsImageFile(file.type) THEN <<ImagePage(file)>>
                 ELSE <<>>
    IN [a EXCEPT !.pdfDoc = AddPages(@, pages), !.j = @ + 1, !.pc = next,
                 !.codecs = Append(@, codec)]

\* processFile(pdfDoc, files[j]) with the codec ending as `codec`
ProcessFile(a, codec) ==
    LET file == a.files[a.j]
        next == IF a.j = Len(a.files) THEN "save" ELSE "process"
        b == [a EXCEPT !.codecs = Append(@, codec)]
    IN IF codec = "unreadable"      \* file.arrayBuffer() rejects, outside any try
       THEN [b EXCEPT !.pc = "rejected", !.error = "NotReadableError"]
       ELSE IF file.type = PDF_TYPE
       THEN IF codec = "ok"
            THEN [b EXCEPT !.pdfDoc = AddPages(@, CopyPages(file, GetPageIndices(file))),
                           !.j = @ + 1, !.pc = next]
            ELSE [b EXCEPT !.pc = "rejected", !.error = "Failed to merge PDF file"]
       ELSE IF MergerIsImageFile(file.type)
       THEN IF codec = "ok"
            THEN [b EXCEPT !.pdfDoc = AddPages(@, <<ImagePage(file)>>),
                           !.j = @ + 1, !.pc = next]
            ELSE [b EXCEPT !.pc = "rejected", !.error = "Failed to merge image file"]
       ELSE [b EXCEPT !.j = @ + 1, !.pc = next]    \* console.warn, nothing added

AsmProcessFile ==
    /\ asm.pc = "process"
    /\ \E codec \in CodecOutcomes(asm.files[asm.j]) : asm' = ProcessFile(asm, codec)

\* savePdfAsUint8Array: the bytes are the document's pages, serialized
AsmSave ==
    /\ asm.pc = "save"
    /\ \E saved \in SaveOutcomes :
          asm' = IF saved = "ok"
                 THEN [asm EXCEPT !.pc = "resolved", !.bytes = asm.pdfDoc]
                 ELSE [asm EXCEPT !.pc = "rejected", !.error = "save failed"]

-----------------------------------------------------------------------------
(* PdfMergerService.addImageToPage and calculateImageScaling.  A number is *)
(* the exact fraction <<numerator, denominator>> in lowest terms with a    *)
(* positive denominator: the arithmetic is that of the reals, without the  *)
(* rounding of the last bit a double brings.                               *)

RECURSIVE Gcd(_, _)
Gcd(a, b) == IF b = 0 THEN a ELSE Gcd(b, a % b)

Abs(n) == IF n < 0 THEN -n ELSE n

Rat(n, d) ==
    LET g == Gcd(Abs(n), Abs(d))
        sgn == IF d < 0 THEN -1 ELSE 1
    IN <<sgn * (n \div g), sgn * (d \div g)>>

RatMul(a, b) == Rat(a[1] * b[1], a[2] * b[2])
RatDiv(a, b) == Rat(a[1] * b[2], a[2] * b[1])
RatSub(a, b) == Rat(a[1] * b[2] - b[1] * a[2], a[2] * b[2])
RatAdd(a, b) == Rat(a[1] * b[2] + b[1] * a[2], a[2] * b[2])
RatLe(a, b) == a[1] * b[2] <= b[1] * a[2]

MutRatMin(a, b) == IF RatLe(a, b) THEN b ELSE a

\* Math.min(a, b)
RatMin(a, b) == IF RatLe(a, b) THEN a ELSE b

\* image.width, image.height of the embedded image: whole pixels
ImageDimensions ==
    {[width |-> Rat(w, 1), height |-> Rat(h, 1)] : w \in 1..MaxSide, h \in 1..MaxSide}

\* page.getWidth(), page.getHeight(): pdfDoc.addPage() makes an A4 page of
\* 595.28 x 841.89 points; the other sizes stand for any page
PageDimensions ==
    {[width |-> Rat(59528, 100), height |-> Rat(84189, 100)],
     [width |-> Rat(84189, 100), height |-> Rat(59528, 100)],
     [width |-> Rat(4, 1), height |-> Rat(3, 1)]}

CalculateImageScaling(imageDimensions, pageDimensions) ==
    LET scaleFactor == RatMin(RatDiv(pageDimensions.width, imageDimensions.width),
                              RatDiv(pageDimensions.height, imageDimensions.height))
        scaledWidth == RatMul(imageDimensions.width, scaleFactor)
        scaledHeight == RatMul(imageDimensions.height, scaleFactor)
    IN [scaleFactor |-> scaleFactor,
        width |-> scaledWidth,
        height |-> scaledHeight,
        x |-> RatDiv(RatSub(pageDimensions.width, scaledWidth), Rat(2, 1)),
        y |-> RatDiv(RatSub(pageDimensions.height, scaledHeight), Rat(2, 1))]

\* addImageToPage(pdfDoc, image): the frame holds the image's and the new
\* page's dimensions; drawn is the rectangle handed to page.drawImage
AddImageToPage ==
    /\ asm.pc = "addImageToPage"
    /\ LET scaling == CalculateImageScaling(asm.image, asm.page) IN
       asm' = Spread(asm, [pc |-> "drawn", scaling |-> scaling,
                           drawn |-> [x |-> scaling.x, y |-> scaling.y,
                                      width |-> scaling.width,
                                      height |-> scaling.height]])

-----------------------------------------------------------------------------
(* PdfManager.validateAndPrepareFiles and mergeFiles, driven by            *)
(* PdfImageViewerComponent.mergeAndDownload: the frame `req`               *)

\* managedFile.compressedFile || managedFile.file
MutSelectFile(mf) == mf.file

SelectFile(mf) == IF "compressedFile" \in DOMAIN mf THEN mf.compressedFile ELSE mf.file

MutStillCompressing(mfs) == {i \in 1..Len(mfs) : mfs[i].state = "unprocessed"}

\* managedFiles.filter((f) => f.state === 'compressing')
StillCompressing(mfs) == {i \in 1..Len(mfs) : mfs[i].state = "compressing"}

MutHasPasswordProtected(names) == Len(names) > 1

\* passwordProtectedFiles.length > 0
HasPasswordProtected(names) == Len(names) > 0

IdleReq == [pc |-> "idle", snapshot |-> <<>>, i |-> 0, validations |-> <<>>,
            processedFiles |-> <<>>, passwordProtectedFiles |-> <<>>,
            totalSize |-> 0, returned |-> <<>>, filesToMerge |-> <<>>,
            merged |-> <<>>, downloaded |-> <<>>, alert |-> <<>>]

NoCalls == [validatePdf |-> 0, sizeCheck |-> 0, mergeFilesToPdf |-> 0]

Alert(r, message) == [r EXCEPT !.pc = "done", !.alert = <<message>>]

\* mergeAndDownload up to the validation loop of validateAndPrepareFiles
MergeAndDownload ==
    /\ req.pc = "idle"
    /\ microtasks = <<>>
    /\ LET r == [req EXCEPT !.snapshot = managedFiles] IN
       req' = IF Len(managedFiles) = 0
              THEN Alert(r, <<"Por favor, selecione arquivos para unificar.">>)
              ELSE IF StillCompressing(managedFiles) # {}
              THEN Alert(r, <<"Aguarde o termino da compressao de todos os arquivos.">>)
              ELSE [r EXCEPT !.pc = "validate", !.i = 1]
    /\ UNCHANGED <<intakeVars, asm, calls>>

MutRejectInvalid(r, managedFile, validation, next) ==
    [r EXCEPT !.i = @ + 1, !.pc = next]

\* throw new Error(`PDF invalido: ${name} - ${validation.error}`), caught by
\* mergeAndDownload, which alerts the message
RejectInvalid(r, managedFile, validation, next) ==
    Alert(r, <<"PDF invalido", managedFile.file.name, validation.error>>)

MutValidateEntry(r, read, load) ==
    LET managedFile == r.snapshot[r.i]
        fileToValidate == SelectFile(managedFile)
        next == IF r.i = Len(r.snapshot) THEN "passwordCheck" ELSE "validate"
    IN IF IsPdfFile(managedFile.file)
       THEN LET validation == ValidatePdf(fileToValidate, read, load)
                r1 == [r EXCEPT !.validations = Append(@, validation)]
            IN IF ~validation.isValid
               THEN RejectInvalid(r1, managedFile, validation, next)
               ELSE IF validation.requiresPassword
               THEN Alert(r1, <<"Os seguintes PDFs estao protegidos por senha",
                                <<managedFile.file.name>>>>)
               ELSE [r1 EXCEPT !.processedFiles = Append(@, fileToValidate),
                               !.i = @ + 1, !.pc = next]
       ELSE [r EXCEPT !.processedFiles = Append(@, fileToValidate),
                      !.i = @ + 1, !.pc = next]

\* one pass of the loop over the snapshot, the validator ending as given
ValidateEntry(r, read, load) ==
    LET managedFile == r.snapshot[r.i]
        fileToValidate == SelectFile(managedFile)
        next == IF r.i = Len(r.snapshot) THEN "passwordCheck" ELSE "validate"
    IN IF IsPdfFile(managedFile.file)
       THEN LET validation == ValidatePdf(fileToValidate, read, load)
                r1 == [r EXCEPT !.validations = Append(@, validation)]
            IN IF ~validation.isValid
               THEN RejectInvalid(r1, managedFile, validation, next)
               ELSE [r1 EXCEPT
                       !.passwordProtectedFiles =
                           IF validation.requiresPassword
                           THEN Append(@, managedFile.file.name) ELSE @,
                       !.processedFiles = Append(@, fileToValidate),
                       !.i = @ + 1, !.pc = next]
       ELSE [r EXCEPT !.processedFiles = Append(@, fileToValidate),
                      !.i = @ + 1, !.pc = next]

ValidateNext ==
    /\ req.pc = "validate"
    /\ LET managedFile == req.snapshot[req.i] IN
       IF IsPdfFile(managedFile.file)
       THEN /\ \E read \in ReadOutcomes :
                 \E load \in LoadOutcomesOf(SelectFile(managedFile)) :
                    req' = ValidateEntry(req, read, load)
            /\ calls' = [calls EXCEPT !.validatePdf = @ + 1]
       ELSE /\ req' = ValidateEntry(req, "ok", "ok")
            /\ calls' = calls
    /\ UNCHANGED <<intakeVars, asm>>

\* step 3 of validateAndPrepareFiles
PasswordCheck ==
    /\ req.pc = "passwordCheck"
    /\ req' = IF HasPasswordProtected(req.passwordProtectedFiles)
              THEN Alert(req, <<"Os seguintes PDFs estao protegidos por senha",
                                req.passwordProtectedFiles>>)
              ELSE [req EXCEPT !.pc = "sizeCheck"]
    /\ UNCHANGED <<intakeVars, asm, calls>>

\* step 4 of validateAndPrepareFiles, and its return
SizeCheck ==
    /\ req.pc = "sizeCheck"
    /\ LET totalSize == SumSizes(req.processedFiles, 1)
           r == [req EXCEPT !.totalSize = totalSize]
       IN req' = IF ExceedsBudget(totalSize)
                 THEN Alert(r, <<"Tamanho total excede o limite", ToFixed2MB(totalSize),
                                 MAX_TOTAL_SIZE_BYTES \div MiB>>)
                 ELSE [r EXCEPT !.pc = "mergeFiles",
                                !.returned = <<[files |-> req.processedFiles,
                                                validations |-> req.validations]>>]
    /\ calls' = [calls EXCEPT !.sizeCheck = @ + 1]
    /\ UNCHANGED <<intakeVars, asm>>

MutMergeFiles ==
    /\ req.pc = "mergeFiles"
    /\ LET filesToMerge == [k \in 1..Len(managedFiles) |-> SelectFile(managedFiles[k])]
       IN /\ req' = [req EXCEPT !.pc = "assembling", !.filesToMerge = filesToMerge]
          /\ asm' = [IdleAsm EXCEPT !.pc = "called", !.files = filesToMerge]
    /\ calls' = [calls EXCEPT !.mergeFilesToPdf = @ + 1]
    /\ UNCHANGED intakeVars

\* mergeFiles(managedFiles) up to the call of the assembler
MergeFiles ==
    /\ req.pc = "mergeFiles"
    /\ LET filesToMerge == [k \in 1..Len(req.snapshot) |-> SelectFile(req.snapshot[k])]
       IN /\ req' = [req EXCEPT !.pc = "assembling", !.filesToMerge = filesToMerge]
          /\ asm' = [IdleAsm EXCEPT !.pc = "called", !.files = filesToMerge]
    /\ calls' = [calls EXCEPT !.mergeFilesToPdf = @ + 1]
    /\ UNCHANGED intakeVars

MutMergeFilesError(message) == <<"Erro ao unificar PDFs", "Erro desconhecido">>

\* new Error(`Erro ao unificar PDFs: ${error.message}`)
MergeFilesError(message) == <<"Erro ao unificar PDFs", message>>

\* mergeFiles after the assembler settled, and the rest of mergeAndDownload
MergeSettled ==
    /\ req.pc = "assembling"
    /\ asm.pc \in {"resolved", "rejected"}
    /\ IF asm.pc = "resolved"
       THEN /\ req' = Alert([req EXCEPT
                               !.merged = <<[settled |-> "resolved", bytes |-> asm.bytes]>>,
                               !.downloaded = <<asm.bytes>>],
                            <<"Documentos unificados com sucesso!">>)
            /\ managedFiles' = <<>>
            /\ ghost' = <<>>
       ELSE /\ req' = Alert([req EXCEPT
                               !.merged = <<[settled |-> "rejected",
                                             error |-> MergeFilesError(asm.error)]>>],
                            MergeFilesError(asm.error))
            /\ UNCHANGED <<managedFiles, ghost>>
    /\ UNCHANGED <<compressionCache, encoding, microtasks, nextSerial, lastOp,
                   asm, calls>>

-----------------------------------------------------------------------------
(* The services called on their own                                        *)

\* no compressImage call made yet, the cache never cleared
IdleCmp == [n |-> 0, clears |-> 0, begun |-> <<>>, log |-> <<>>]

\* the files compressImage is called with
CompressFiles == {SmallPng, SmallPngLater, EdgePng, BigJpg}

RECURSIVE StartCalls(_, _, _, _)
\* files.map((file) => this.compressImage(file, options))
StartCalls(w, serial, files, k) ==
    IF k > Len(files) THEN w
    ELSE StartCalls(CompressImage(w, serial + k - 1, "none", files[k]),
                    serial, files, k + 1)

\* compressImage(file), or compressMultipleImagesParallel(files): every call
\* runs to its first suspension.  History: when each call began.
CompressImages(files) ==
    /\ microtasks = <<>>
    /\ cmp.n + Len(files) <= MaxCalls
    /\ Commit(StartCalls(Work, cmp.n + 1, files, 1))
    /\ cmp' = [cmp EXCEPT
                 !.n = @ + Len(files),
                 !.begun = @ \o [k \in 1..Len(files) |->
                                    [at |-> Len(cmp.log), epoch |-> cmp.clears]]]
    /\ lastOp' = [op |-> "compressImage", serial |-> 0, removed |-> FALSE]
    /\ UNCHANGED <<nextSerial, req, asm, calls, val, pv, urls, pend>>

\* the promise compressImage returned settles for its caller
CallSettles ==
    /\ microtasks # <<>>
    /\ LET t == Head(microtasks)
           outcome == IF t.settled = "resolved"
                      THEN [result |-> t.result] ELSE [message |-> t.message]
       IN cmp' = [cmp EXCEPT !.log = Append(@,
                     Spread([serial |-> t.serial, file |-> t.file,
                             settled |-> t.settled, path |-> t.path,
                             onProgress |-> t.onProgress,
                             begunAt |-> cmp.begun[t.serial].at,
                             begunEpoch |-> cmp.begun[t.serial].epoch,
                             doneEpoch |-> cmp.clears], outcome))]
    /\ microtasks' = Tail(microtasks)
    /\ lastOp' = [op |-> "settled", serial |-> 0, removed |-> FALSE]
    /\ UNCHANGED <<managedFiles, compressionCache, encoding, ghost, nextSerial,
                   req, asm, calls, val, pv, urls, pend>>

\* clearCache()
ClearCache ==
    /\ microtasks = <<>>
    /\ cmp.clears < MaxClears
    /\ compressionCache' = <<>>
    /\ cmp' = [cmp EXCEPT !.clears = @ + 1]
    /\ lastOp' = [op |-> "clearCache", serial |-> 0, removed |-> FALSE]
    /\ UNCHANGED <<managedFiles, encoding, microtasks, ghost, nextSerial,
                   req, asm, calls, val, pv, urls, pend>>

\* validatePdf, one step per suspension point.  A throw is a state of its
\* own: the frame holds the site that threw and the error, and the next step
\* is the catch block that encloses the site, if there is one.
IdleVal == [pc |-> "idle", n |-> 0]

ValidateFiles == {PdfA, PdfE, PdfX, PdfS, PdfL, PdfP, BigJpg, SmallPng, GifImg}

MutEnclosingCatch(site) ==
    CASE site = "arrayBuffer" -> "none"
      [] site = "getDocument" -> "inner"

\* the try block a suspension point of validatePdf lies in
EnclosingCatch(site) ==
    CASE site = "arrayBuffer" -> "validatePdf"
      [] site = "getDocument" -> "inner"

ValidateCall(file) ==
    /\ val.pc \in {"idle", "resolved", "rejected"}
    /\ val.n < MaxValidations
    /\ val' = [pc |-> "arrayBuffer", n |-> val.n + 1, file |-> file]

\* await file.arrayBuffer()
ValRead ==
    /\ val.pc = "arrayBuffer"
    /\ \E read \in ReadOutcomes :
          val' = IF read = "ok"
                 THEN Spread(val, [pc |-> "check", read |-> read])
                 ELSE Spread(val, [pc |-> "thrown", read |-> read,
                                   site |-> "arrayBuffer", error |-> read])

\* checkPdfEncryption up to the trial load
ValCheck ==
    /\ val.pc = "check"
    /\ val' = IF HasPdfHeader(val.file) /\ HasEncryptMarker(val.file)
              THEN Spread(val, [pc |-> "getDocument"])
              ELSE Spread(val, [pc |-> "resolved", load |-> "none",
                                result |-> CheckPdfEncryption(val.file, "ok")])

\* await Promise.race([loadingTask.promise, timeoutPromise])
ValLoad ==
    /\ val.pc = "getDocument"
    /\ \E load \in LoadOutcomes :
          val' = IF load = "ok"
                 THEN Spread(val, [pc |-> "resolved", load |-> load,
                                   result |-> CheckPdfEncryption(val.file, load)])
                 ELSE Spread(val, [pc |-> "thrown", load |-> load,
                                   site |-> "getDocument", error |-> load])

\* the catch block enclosing the site that threw; with none, the promise
\* validatePdf returned rejects
ValCatch ==
    /\ val.pc = "thrown"
    /\ LET handler == EnclosingCatch(val.site) IN
       val' = CASE handler = "inner" ->
                     Spread(val, [pc |-> "resolved",
                                  result |-> CheckPdfEncryption(val.file, val.error)])
                [] handler = "validatePdf" ->
                     Spread(val, [pc |-> "resolved", load |-> "none",
                                  result |-> ValidatePdf(val.file, val.error, "ok")])
                [] OTHER -> Spread(val, [pc |-> "rejected", load |-> "none"])

\* PdfVisualizationService.  previewContent is <<>> for null, else <<content>>;
\* an object URL is its index in urls.
\* isPreviewOpen = false, previewContent = null, isPasswordProtected = false
ClosedPreview ==
    [isPreviewOpen |-> FALSE, previewContent |-> <<>>, isPasswordProtected |-> FALSE]

\* the service's signals and the browser's object URLs, as a handler sees them
Vis == [pv |-> pv, urls |-> urls]

\* revokePreviewUrl(): if (content?.url) URL.revokeObjectURL(content.url)
RevokePreviewUrl(st) ==
    IF st.pv.previewContent # <<>>
    THEN [st EXCEPT !.urls[st.pv.previewContent[1].url] = "revoked"]
    ELSE st

MutClosePreview(st) ==
    [RevokePreviewUrl(st) EXCEPT !.pv.isPreviewOpen = FALSE, !.pv.previewContent = <<>>]

\* closePreview()
ClosePreview(st) == [RevokePreviewUrl(st) EXCEPT !.pv = ClosedPreview]

MutOpenPreview(st, file, isProtectedByPassword, base64) ==
    LET url == Len(st.urls) + 1 IN
    [pv |-> [isPreviewOpen |-> TRUE,
             previewContent |-> <<[url |-> url, type |-> file.type,
                                   fileName |-> file.name, base64 |-> base64]>>,
             isPasswordProtected |-> isProtectedByPassword],
     urls |-> Append(st.urls, "live")]

\* openPreview(file, isProtectedByPassword, base64)
OpenPreview(st, file, isProtectedByPassword, base64) ==
    LET closed == ClosePreview(st)
        url == Len(closed.urls) + 1        \* URL.createObjectURL(file)
    IN [pv |-> [isPreviewOpen |-> TRUE,
                previewContent |-> <<[url |-> url, type |-> file.type,
                                      fileName |-> file.name, base64 |-> base64]>>,
                isPasswordProtected |-> isProtectedByPassword],
        urls |-> Append(closed.urls, "live")]

PreviewFiles == {PdfA, PdfE, BigJpg, SmallPng}
Base64Values == {"undefined", "data"}

\* PdfManager.openPreview(file), one step per suspension point; pend holds the
\* calls that are suspended.
PreviewIntakeFiles == {PdfA, PdfE, BigJpg}

\* how fileToBase64 (FileReader.readAsDataURL) may end
FileReaderOutcomes == {"ok", "error"}

\* history kept with a pending openPreview: closed is TRUE when closePreview
\* ran while it was pending and no openPreview was requested since
Overtaken(p) == {[g EXCEPT !.closed = FALSE] : g \in p}
ClosedMeanwhile(p) == {[g EXCEPT !.closed = TRUE] : g \in p}

PreviewUnchanged ==
    UNCHANGED <<managedFiles, compressionCache, encoding, microtasks, ghost,
                nextSerial, req, asm, calls, cmp, val>>

\* selectFileForPreview(managedFile): openPreview(managedFile.file) up to its
\* first await; for a file that is not declared application/pdf there is
\* none and the preview opens at once
SelectFileForPreview(i) ==
    /\ microtasks = <<>>
    /\ Len(urls) + Cardinality(pend) < MaxPreviews
    /\ LET file == managedFiles[i].file IN
       IF file.type = PDF_TYPE
       THEN /\ pend' = Overtaken(pend) \cup
                         {[n |-> Len(urls) + Cardinality(pend) + 1,
                           file |-> file, pc |-> "validatePdf",
                           isProtected |-> FALSE, closed |-> FALSE]}
            /\ UNCHANGED <<pv, urls>>
       ELSE /\ LET st == OpenPreview(Vis, file, FALSE, "undefined") IN
               /\ pv' = st.pv
               /\ urls' = st.urls
            /\ pend' = Overtaken(pend)
    /\ lastOp' = [op |-> "preview", serial |-> 0, removed |-> FALSE]
    /\ PreviewUnchanged

\* (await this.pdfValidation.validatePdf(file)).requiresPassword
PreviewValidated(f, read, load) ==
    /\ microtasks = <<>>
    /\ f \in pend
    /\ f.pc = "validatePdf"
    /\ pend' = (pend \ {f}) \cup
                 {[f EXCEPT !.pc = "fileToBase64",
                            !.isProtected = ValidatePdf(f.file, read, load).requiresPassword]}
    /\ lastOp' = [op |-> "preview", serial |-> 0, removed |-> FALSE]
    /\ UNCHANGED <<pv, urls>>
    /\ PreviewUnchanged

\* await this.fileToBase64(file), then pdfVisualization.openPreview; the catch
\* block opens the preview with the flag false
PreviewRead(f, outcome) ==
    /\ microtasks = <<>>
    /\ f \in pend
    /\ f.pc = "fileToBase64"
    /\ LET st == IF outcome = "ok"
                 THEN OpenPreview(Vis, f.file, f.isProtected, "data")
                 ELSE OpenPreview(Vis, f.file, FALSE, "undefined")
       IN /\ pv' = st.pv
          /\ urls' = st.urls
    /\ pend' = pend \ {f}
    /\ lastOp' = [op |-> "preview", serial |-> 0, removed |-> FALSE]
    /\ PreviewUnchanged

MutClosePreviewCall ==
    /\ microtasks = <<>>
    /\ pv.isPreviewOpen
    /\ ClosePreviewNow
    /\ managedFiles' = <<>>
    /\ ghost' = <<>>
    /\ lastOp' = [op |-> "preview", serial |-> 0, removed |-> FALSE]
    /\ UNCHANGED <<compressionCache, encoding, microtasks, nextSerial,
                   req, asm, calls, cmp, val, pend>>

\* PdfManager.closePreview(), from the modal's close button or overlay
ClosePreviewCall ==
    /\ microtasks = <<>>
    /\ pv.isPreviewOpen
    /\ LET st == ClosePreview(Vis) IN
       /\ pv' = st.pv
       /\ urls' = st.urls
    /\ pend' = ClosedMeanwhile(pend)
    /\ lastOp' = [op |-> "preview", serial |-> 0, removed |-> FALSE]
    /\ PreviewUnchanged

\* the service's openPreview called directly
VisOpenPreview(file, isProtectedByPassword, base64) ==
    /\ Len(urls) < MaxUrls
    /\ LET st == OpenPreview(Vis, file, isProtectedByPassword, base64) IN
       /\ pv' = st.pv
       /\ urls' = st.urls
    /\ UNCHANGED <<intakeVars, req, asm, calls, cmp, val, pend>>

\* the service's closePreview called directly
VisClosePreview ==
    /\ LET st == ClosePreview(Vis) IN
       /\ pv' = st.pv
       /\ urls' = st.urls
    /\ UNCHANGED <<intakeVars, req, asm, calls, cmp, val, pend>>

-----------------------------------------------------------------------------
(* Specifications                                                          *)

vars == <<managedFiles, compressionCache, encoding, microtasks, ghost,
          nextSerial, lastOp, req, asm, calls, cmp, val, pv, urls, pend>>

\* the services no call has been made on
ServicesIdle ==
    /\ cmp = IdleCmp
    /\ val = IdleVal
    /\ pv = ClosedPreview
    /\ urls = <<>>
    /\ pend = {}

\* Intake: the collection, the background compression tasks, the encoder.
Init ==
    /\ managedFiles = <<>>
    /\ compressionCache = <<>>
    /\ encoding = {}
    /\ microtasks = <<>>
    /\ ghost = <<>>
    /\ nextSerial = 1
    /\ lastOp = [op |-> "init", serial |-> 0, removed |-> FALSE]
    /\ req = IdleReq
    /\ asm = IdleAsm
    /\ calls = NoCalls
    /\ ServicesIdle

mergeVars == <<req, asm, calls, cmp, val, pv, urls, pend>>

Next ==
    \/ \E files \in SeqsUpTo(IntakeFiles, MaxBatch) :
          \E ids \in [1..Len(files) -> IdPool] :
             AddFiles(files, ids) /\ UNCHANGED mergeVars
    \/ \E fileId \in IdPool : RemoveFile(fileId) /\ UNCHANGED mergeVars
    \/ \E job \in encoding : \E p \in ProgressSteps :
          EncoderProgress(job, p) /\ UNCHANGED mergeVars
    \/ \E job \in encoding : \E size \in EncoderSizes :
          EncoderResolve(job, size) /\ UNCHANGED mergeVars
    \/ \E job \in encoding : \E cause \in EncoderCauses :
          EncoderReject(job, cause) /\ UNCHANGED mergeVars
    \/ RunMicrotask /\ UNCHANGED mergeVars
    \/ NgOnDestroy /\ UNCHANGED <<req, asm, calls, cmp, val, pend>>

Spec == Init /\ [][Next]_vars

\* The encoder's promises settle and queued continuations run.
EncoderSettles ==
    \E job \in encoding :
        \/ \E size \in EncoderSizes : EncoderResolve(job, size)
        \/ \E cause \in EncoderCauses : EncoderReject(job, cause)

SpecLive ==
    /\ Spec
    /\ WF_vars(RunMicrotask /\ UNCHANGED mergeVars)
    /\ WF_vars(EncoderSettles /\ UNCHANGED mergeVars)

\* The assembler alone, called with any list of files.
AssembleFiles == {PdfA, PdfS, PdfE, BigJpg, SmallPng, GifImg}

InitAssemble ==
    /\ managedFiles = <<>>
    /\ compressionCache = <<>>
    /\ encoding = {}
    /\ microtasks = <<>>
    /\ ghost = <<>>
    /\ nextSerial = 1
    /\ lastOp = [op |-> "init", serial |-> 0, removed |-> FALSE]
    /\ req = IdleReq
    /\ calls = NoCalls
    /\ ServicesIdle
    /\ \E files \in {<<>>} \cup SeqsUpTo(AssembleFiles, MaxFiles) :
          asm = [IdleAsm EXCEPT !.pc = "called", !.files = files]

NextAssemble ==
    \/ AsmBegin /\ UNCHANGED <<intakeVars, req, calls, auxVars>>
    \/ AsmProcessFile /\ UNCHANGED <<intakeVars, req, calls, auxVars>>
    \/ AsmSave /\ UNCHANGED <<intakeVars, req, calls, auxVars>>

SpecAssemble == InitAssemble /\ [][NextAssemble]_vars

\* One merge request on a collection the intake has produced.  An entry of the
\* collection is what the background task makes of a file: the task's start,
\* then nothing yet, or the encoder's result, or its failure.
StartedAlone(id, file) ==
    CompressFileInBackground(
        [mf |-> <<NewManagedFile(id, file)>>, cache |-> <<>>, enc |-> {},
         mt |-> <<>>, gh |-> <<[serial |-> 1, observed |-> <<"unprocessed">>]>>],
        1, id, file)

Settlements(file) ==
    {[serial |-> 1, file |-> file, settled |-> "resolved",
      result |-> CompressionResult(file.size, size, EncodedFile(file, size))] :
        size \in EncoderSizes}
    \cup {[serial |-> 1, file |-> file, settled |-> "rejected",
           message |-> CompressErrorMessage(file, cause)] : cause \in EncoderCauses}

EntryShapes(id, file) ==
    LET w == StartedAlone(id, file) IN
    IF w.mt # <<>>
    THEN {Upd(w, id, ResumeUpdates(Head(w.mt)))}
    ELSE IF w.enc # {}
    THEN {w} \cup {Upd(w, id, ResumeUpdates(t)) : t \in Settlements(file)}
    ELSE {w}

MergeFilesUniverse == {PdfA, PdfP, PdfQ, PdfE, PdfX, BigJpg, SmallPng, GifImg}

IdAt(k) == IF k % 2 = 1 THEN "id1" ELSE "id2"

Collections ==
    UNION {
        {c \in [1..n -> UNION {EntryShapes(id, f) : id \in IdPool, f \in MergeFilesUniverse}] :
            \A k \in 1..n : c[k].mf[1].id = IdAt(k)} :
        n \in 0..MaxList}

InitMerge ==
    /\ \E c \in Collections :
          /\ managedFiles = [k \in 1..Len(c) |-> c[k].mf[1]]
          /\ ghost = [k \in 1..Len(c) |-> [c[k].gh[1] EXCEPT !.serial = k]]
          /\ encoding = {[serial |-> k, id |-> c[k].mf[1].id, file |-> c[k].mf[1].file,
                          p |-> 0, removed |-> FALSE] : k \in {i \in 1..Len(c) : c[i].enc # {}}}
          /\ nextSerial = Len(c) + 1
    /\ compressionCache = <<>>
    /\ microtasks = <<>>
    /\ lastOp = [op |-> "init", serial |-> 0, removed |-> FALSE]
    /\ req = IdleReq
    /\ asm = IdleAsm
    /\ calls = NoCalls
    /\ ServicesIdle

NextMerge ==
    \/ MergeAndDownload /\ UNCHANGED auxVars
    \/ ValidateNext /\ UNCHANGED auxVars
    \/ PasswordCheck /\ UNCHANGED auxVars
    \/ SizeCheck /\ UNCHANGED auxVars
    \/ MergeFiles /\ UNCHANGED auxVars
    \/ AsmBegin /\ UNCHANGED <<intakeVars, req, calls, auxVars>>
    \/ AsmProcessFile /\ UNCHANGED <<intakeVars, req, calls, auxVars>>
    \/ AsmSave /\ UNCHANGED <<intakeVars, req, calls, auxVars>>
    \/ MergeSettled /\ UNCHANGED auxVars

SpecMerge == InitMerge /\ [][NextMerge]_vars

\* The compression service alone: direct calls, the encoder, clearCache.
NextCompress ==
    \/ \E files \in SeqsUpTo(CompressFiles, MaxBatch) : CompressImages(files)
    \/ \E job \in encoding : \E p \in ProgressSteps :
          EncoderProgress(job, p) /\ UNCHANGED mergeVars
    \/ \E job \in encoding : \E size \in EncoderSizes :
          EncoderResolve(job, size) /\ UNCHANGED mergeVars
    \/ \E job \in encoding : \E cause \in EncoderCauses :
          EncoderReject(job, cause) /\ UNCHANGED mergeVars
    \/ CallSettles
    \/ ClearCache

SpecCompress == Init /\ [][NextCompress]_vars

\* The validator alone, called with any file.
NextValidate ==
    \/ \E file \in ValidateFiles :
          ValidateCall(file) /\ UNCHANGED <<intakeVars, req, asm, calls, cmp, pv, urls, pend>>
    \/ ValRead /\ UNCHANGED <<intakeVars, req, asm, calls, cmp, pv, urls, pend>>
    \/ ValCheck /\ UNCHANGED <<intakeVars, req, asm, calls, cmp, pv, urls, pend>>
    \/ ValLoad /\ UNCHANGED <<intakeVars, req, asm, calls, cmp, pv, urls, pend>>
    \/ ValCatch /\ UNCHANGED <<intakeVars, req, asm, calls, cmp, pv, urls, pend>>

SpecValidate == Init /\ [][NextValidate]_vars

\* entries added so far plus previews requested so far, plus k more
PreviewBudget(k) ==
    (nextSerial - 1) + Len(urls) + Cardinality(pend) + k <= MaxPreviewOps

\* Preview requests beside the intake.
NextPreview ==
    \/ \E files \in SeqsUpTo(PreviewIntakeFiles, 1) :
          \E ids \in [1..Len(files) -> IdPool] :
             PreviewBudget(Len(files)) /\ AddFiles(files, ids) /\ UNCHANGED mergeVars
    \/ \E fileId \in IdPool : RemoveFile(fileId) /\ UNCHANGED mergeVars
    \/ \E job \in encoding : \E p \in ProgressSteps :
          EncoderProgress(job, p) /\ UNCHANGED mergeVars
    \/ \E job \in encoding : \E size \in EncoderSizes :
          EncoderResolve(job, size) /\ UNCHANGED mergeVars
    \/ \E job \in encoding : \E cause \in EncoderCauses :
          EncoderReject(job, cause) /\ UNCHANGED mergeVars
    \/ RunMicrotask /\ UNCHANGED mergeVars
    \/ NgOnDestroy /\ pend' = ClosedMeanwhile(pend)
                   /\ UNCHANGED <<req, asm, calls, cmp, val>>
    \/ \E i \in 1..Len(managedFiles) : PreviewBudget(1) /\ SelectFileForPreview(i)
    \/ \E f \in pend : \E read \in ReadOutcomes : \E load \in LoadOutcomesOf(f.file) :
          PreviewValidated(f, read, load)
    \/ \E f \in pend : \E outcome \in FileReaderOutcomes : PreviewRead(f, outcome)
    \/ ClosePreviewCall

SpecPreview == Init /\ [][NextPreview]_vars

\* Overlapping preview requests on a collection of two entries whose tasks
\* have finished.
PreviewCollections ==
    {c \in [1..2 -> UNION {EntryShapes(id, f) : id \in IdPool, f \in PreviewIntakeFiles}] :
        \A k \in 1..2 : c[k].mf[1].id = IdAt(k) /\ c[k].enc = {}}

InitPreviewRace ==
    /\ \E c \in PreviewCollections :
          /\ managedFiles = [k \in 1..Len(c) |-> c[k].mf[1]]
          /\ ghost = [k \in 1..Len(c) |-> [c[k].gh[1] EXCEPT !.serial = k]]
          /\ nextSerial = Len(c) + 1
    /\ encoding = {}
    /\ compressionCache = <<>>
    /\ microtasks = <<>>
    /\ lastOp = [op |-> "init", serial |-> 0, removed |-> FALSE]
    /\ req = IdleReq
    /\ asm = IdleAsm
    /\ calls = NoCalls
    /\ ServicesIdle

NextPreviewRace ==
    \/ \E i \in 1..Len(managedFiles) : SelectFileForPreview(i)
    \/ \E f \in pend : \E read \in ReadOutcomes : \E load \in LoadOutcomesOf(f.file) :
          PreviewValidated(f, read, load)
    \/ \E f \in pend : \E outcome \in FileReaderOutcomes : PreviewRead(f, outcome)
    \/ ClosePreviewCall
    \/ NgOnDestroy /\ pend' = ClosedMeanwhile(pend)
                   /\ UNCHANGED <<req, asm, calls, cmp, val>>

SpecPreviewRace == InitPreviewRace /\ [][NextPreviewRace]_vars

\* One merge request beside the intake, up to the end of the request.  Before
\* the request other handlers and continuations run freely; during it they
\* run only where its code awaits I/O: validatePdf for a PDF entry, and the
\* assembler's reads, codecs and save.
AtAwait ==
    \/ req.pc = "idle"
    \/ req.pc = "validate" /\ IsPdfFile(req.snapshot[req.i].file)
    \/ req.pc = "assembling" /\ asm.pc \in {"process", "save"}

MergeRaceFiles == {PdfA, BigJpg}

NextMergeRace ==
    \/ \E files \in SeqsUpTo(MergeRaceFiles, 1) :
          \E ids \in [1..Len(files) -> IdPool] :
             AtAwait /\ AddFiles(files, ids) /\ UNCHANGED mergeVars
    \/ \E fileId \in IdPool : AtAwait /\ RemoveFile(fileId) /\ UNCHANGED mergeVars
    \/ \E job \in encoding : \E p \in ProgressSteps :
          AtAwait /\ EncoderProgress(job, p) /\ UNCHANGED mergeVars
    \/ \E job \in encoding : \E size \in EncoderSizes :
          AtAwait /\ EncoderResolve(job, size) /\ UNCHANGED mergeVars
    \/ \E job \in encoding : \E cause \in EncoderCauses :
          AtAwait /\ EncoderReject(job, cause) /\ UNCHANGED mergeVars
    \/ AtAwait /\ RunMicrotask /\ UNCHANGED mergeVars
    \/ MergeAndDownload /\ UNCHANGED auxVars
    \/ microtasks = <<>> /\ ValidateNext /\ UNCHANGED auxVars
    \/ PasswordCheck /\ UNCHANGED auxVars
    \/ SizeCheck /\ UNCHANGED auxVars
    \/ MergeFiles /\ UNCHANGED auxVars
    \/ AsmBegin /\ UNCHANGED <<intakeVars, req, calls, auxVars>>
    \/ microtasks = <<>> /\ AsmProcessFile /\ UNCHANGED <<intakeVars, req, calls, auxVars>>
    \/ microtasks = <<>> /\ AsmSave /\ UNCHANGED <<intakeVars, req, calls, auxVars>>
    \/ MergeSettled /\ UNCHANGED auxVars

SpecMergeRace == Init /\ [][NextMergeRace]_vars

\* The preview service alone.
NextCoordinator ==
    \/ \E file \in PreviewFiles : \E isProtected \in BOOLEAN :
          \E base64 \in Base64Values : VisOpenPreview(file, isProtected, base64)
    \/ VisClosePreview

SpecCoordinator == Init /\ [][NextCoordinator]_vars

\* One addImageToPage call, for any image on any page.
InitScaling ==
    /\ managedFiles = <<>>
    /\ compressionCache = <<>>
    /\ encoding = {}
    /\ microtasks = <<>>
    /\ ghost = <<>>
    /\ nextSerial = 1
    /\ lastOp = [op |-> "init", serial |-> 0, removed |-> FALSE]
    /\ req = IdleReq
    /\ calls = NoCalls
    /\ ServicesIdle
    /\ \E image \in ImageDimensions : \E page \in PageDimensions :
          asm = [pc |-> "addImageToPage", image |-> image, page |-> page]

NextScaling ==
    \/ AddImageToPage /\ UNCHANGED <<intakeVars, req, calls, auxVars>>

SpecScaling == InitScaling /\ [][NextScaling]_vars

-----------------------------------------------------------------------------
(* Properties                                                              *)

RECURSIVE ConcatPages(_, _)
\* all pages of each file of declared type application/pdf in their own order,
\* one page for each file of declared type image/jpeg or image/png, in list
\* order; a file of any other declared type has no page
ConcatPages(files, k) ==
    IF k > Len(files) THEN <<>>
    ELSE LET f == files[k]
             own == IF f.type = "application/pdf"
                    THEN [n \in 1..PageCount(f) |-> [src |-> f.name, page |-> n]]
                    ELSE IF f.type \in {"image/jpeg", "image/png"}
                    THEN <<[src |-> f.name, page |-> 0]>>
                    ELSE <<>>
         IN own \o ConcatPages(files, k + 1)

\* C1: whenever mergeFilesToPdf returns bytes, their page sequence is the
\* concatenation, in input order, of every PDF's pages in their original
\* order and one generated page per JPEG/PNG image: nothing is reordered,
\* duplicated or left out.
C1_OrderPreserved ==
    asm.pc = "resolved" => asm.bytes = ConcatPages(asm.files, 1)

C1_Witness ==
    /\ asm.pc = "resolved"
    /\ asm.files = <<PdfA, SmallPng, PdfS>>
    /\ Len(asm.bytes) = 4

StateHistories ==
    {<<"unprocessed">>, <<"unprocessed", "compressing">>,
     <<"unprocessed", "compressing", "compressed">>,
     <<"unprocessed", "compressing", "error">>}

\* C2: the states written to an entry, in order, are unprocessed, then
\* compressing at most once, then at most one of compressed and error, and
\* nothing after a terminal state.
C2_MonotonicState ==
    \A i \in 1..Len(ghost) : ghost[i].observed \in StateHistories

StateOfSerial(s) ==
    IF \E i \in 1..Len(ghost) : ghost[i].serial = s
    THEN managedFiles[CHOOSE i \in 1..Len(ghost) : ghost[i].serial = s].state
    ELSE "absent"

\* C3: an entry that is in the collection and not yet terminal is later
\* terminal (compressed or error) or removed, given that encoder promises
\* settle.
C3_ReachesTerminal ==
    \A s \in 1..MaxAdds :
        (StateOfSerial(s) \in {"unprocessed", "compressing"})
            ~> (StateOfSerial(s) \in {"compressed", "error", "absent"})

C3_Witness ==
    /\ lastOp.op = "failed"
    /\ StateOfSerial(lastOp.serial) = "error"

\* C4: once removeFile has deleted an entry whose compression is in flight,
\* no later callback or completion of that task changes the collection.
C4_RemovedTaskIsNoOp ==
    [][lastOp'.removed => managedFiles' = managedFiles]_vars

RECURSIVE SelectedTotal(_, _)
\* the bytes of the derived file where an entry has one, of the source file
\* otherwise, summed over the entries from index k on
SelectedTotal(mfs, k) ==
    IF k > Len(mfs) THEN 0
    ELSE (IF "compressedFile" \in DOMAIN mfs[k]
          THEN mfs[k].compressedFile.size ELSE mfs[k].file.size)
         + SelectedTotal(mfs, k + 1)

IsSizeError(r) ==
    /\ r.pc = "done"
    /\ r.alert # <<>>
    /\ r.alert[1][1] = "Tamanho total excede o limite"

\* C5: once the compression and validation gates are passed,
\* validateAndPrepareFiles fails with the size error exactly when the
\* selected files total more than 7*1024*1024 bytes, and returns its file
\* list otherwise; the error carries the actual and the allowed size.
C5_BudgetBoundary ==
    calls.sizeCheck > 0 =>
        IF SelectedTotal(req.snapshot, 1) > 7 * 1024 * 1024
        THEN /\ IsSizeError(req)
             /\ req.returned = <<>>
             /\ req.alert[1][2] = ToFixed2MB(SelectedTotal(req.snapshot, 1))
             /\ req.alert[1][3] = 7
        ELSE /\ ~IsSizeError(req)
             /\ req.returned # <<>>

C5_Witness ==
    /\ calls.sizeCheck > 0
    /\ SelectedTotal(req.snapshot, 1) = 7 * 1024 * 1024
    /\ req.returned # <<>>

\* C6: the total compared against the budget counts the derived file of an
\* entry that has one and the source file of an entry that has none.
C6_PostCompressionTotal ==
    calls.sizeCheck > 0 => req.totalSize = SelectedTotal(req.snapshot, 1)

C6_Witness ==
    /\ calls.sizeCheck > 0
    /\ Len(req.snapshot) = 2
    /\ req.snapshot[1].file = BigJpg
    /\ "compressedFile" \in DOMAIN req.snapshot[1]
    /\ req.snapshot[1].compressedFile.size = 2 * MiB
    /\ req.snapshot[2].file = PdfA
    /\ req.totalSize = 5 * MiB
    /\ req.returned # <<>>

\* the entries the validator is called for, in order
PdfEntries(mfs) ==
    LET RECURSIVE Pick(_)
        Pick(k) == IF k > Len(mfs) THEN <<>>
                   ELSE (IF IsPdfFile(mfs[k].file) THEN <<mfs[k]>> ELSE <<>>)
                        \o Pick(k + 1)
    IN Pick(1)

Range(seq) == {seq[k] : k \in 1..Len(seq)}

\* C7: when the validator reports requiresPassword for a PDF of the list and
\* no PDF invalid, the request ends with the password error naming every
\* protected file, validateAndPrepareFiles returns no file list, and the
\* assembler is never called.
C7_PasswordGate ==
    LET pw == {k \in 1..Len(req.validations) : req.validations[k].requiresPassword}
    IN pw # {} =>
         /\ req.returned = <<>>
         /\ calls.mergeFilesToPdf = 0
         /\ asm.pc = "idle"
         /\ (req.pc = "done" /\ \A k \in 1..Len(req.validations) :
                                    req.validations[k].isValid)
              => /\ req.alert[1][1] = "Os seguintes PDFs estao protegidos por senha"
                 /\ Range(req.alert[1][2])
                      = {PdfEntries(req.snapshot)[k].file.name : k \in pw}

C7_Witness ==
    /\ req.pc = "done"
    /\ Len(req.validations) = 2
    /\ ~req.validations[1].requiresPassword
    /\ req.validations[1].isValid
    /\ req.validations[2].requiresPassword
    /\ req.alert[1][2] = <<"e.pdf">>

\* C8: a request whose list holds an entry in state compressing fails with
\* the wait message before the validator is called and before the size
\* budget is evaluated.
C8_CompressingGate ==
    (req.pc # "idle" /\ \E i \in 1..Len(req.snapshot) :
                            req.snapshot[i].state = "compressing")
        => /\ req.pc = "done"
           /\ req.alert = <<<<"Aguarde o termino da compressao de todos os arquivos.">>>>
           /\ req.returned = <<>>
           /\ calls = [validatePdf |-> 0, sizeCheck |-> 0, mergeFilesToPdf |-> 0]

C8_Witness ==
    /\ req.pc = "done"
    /\ Len(req.snapshot) = 2
    /\ req.snapshot[1].file = PdfA
    /\ req.snapshot[2].state = "compressing"

\* C9: when the validator reports a PDF of the list invalid, the request
\* fails with the error naming that file; no file list is returned, with or
\* without the invalid file, and nothing is assembled.
C9_InvalidPdfIsFatal ==
    \A k \in 1..Len(req.validations) :
        ~req.validations[k].isValid =>
            /\ req.pc = "done"
            /\ req.alert = <<<<"PDF invalido", PdfEntries(req.snapshot)[k].file.name,
                               req.validations[k].error>>>>
            /\ req.returned = <<>>
            /\ calls.sizeCheck = 0
            /\ calls.mergeFilesToPdf = 0

C9_Witness ==
    /\ req.pc = "done"
    /\ Len(req.snapshot) = 2
    /\ req.snapshot[1].file = PdfA
    /\ req.snapshot[2].file = PdfX
    /\ Len(req.validations) = 2
    /\ ~req.validations[2].isValid


\* C10: when the encoder fails for an image entry, the catch block leaves
\* that entry in state error with a message and progress 100 and changes no
\* other entry.
C10_FailureIsLocal ==
    [][lastOp'.op = "failed" =>
         \A i \in 1..Len(managedFiles) :
            IF ghost[i].serial = lastOp'.serial
            THEN /\ managedFiles'[i].state = "error"
                 /\ managedFiles'[i].progress = 100
                 /\ "error" \in DOMAIN managedFiles'[i]
            ELSE managedFiles'[i] = managedFiles[i]]_vars

\* C10, second half: an entry in state error does not block a request, and
\* validateAndPrepareFiles and mergeFiles take its source file.
C10_FailedEntryUsable ==
    \A i \in 1..Len(req.snapshot) :
        req.snapshot[i].state = "error" =>
            /\ (Len(req.processedFiles) >= i => req.processedFiles[i] = req.snapshot[i].file)
            /\ (Len(req.filesToMerge) >= i => req.filesToMerge[i] = req.snapshot[i].file)
            /\ (req.pc = "done" =>
                   req.alert # <<<<"Aguarde o termino da compressao de todos os arquivos.">>>>
                   \/ \E j \in 1..Len(req.snapshot) : req.snapshot[j].state = "compressing")

\* the same (name, size, lastModified)
SameKeyFields(f, g) ==
    f.name = g.name /\ f.size = g.size /\ f.lastModified = g.lastModified

\* C11: a compressImage call with a file under 500*1024 bytes resolves with
\* compressedSize = originalSize and never reaches the encoder; a call with
\* the same (name, size, lastModified) begun after an earlier one completed
\* resolves with the same outcome, reports progress 100 and does not reach
\* the encoder.
C11_SmallFileSkipped ==
    \A j \in 1..Len(cmp.log) :
        LET c == cmp.log[j] IN
        c.file.size < 500 * 1024 =>
            /\ c.settled = "resolved"
            /\ c.result.originalSize = c.file.size
            /\ c.result.compressedSize = c.result.originalSize
            /\ c.path # "encoder"
            /\ \A i \in 1..(j - 1) :
                  (SameKeyFields(cmp.log[i].file, c.file) /\ c.begunAt >= i) =>
                      /\ c.result = cmp.log[i].result
                      /\ c.onProgress = <<100>>

C11_Witness ==
    /\ Len(cmp.log) = 2
    /\ cmp.log[1].file = SmallPng
    /\ cmp.log[2].file = SmallPng
    /\ cmp.log[2].begunAt = 1
    /\ cmp.log[2].path = "cache"
    /\ encoding = {}

\* a cache hit has an earlier resolved call with the same name, size and
\* lastModified behind it
HitsHaveSameKey ==
    \A j \in 1..Len(cmp.log) :
        cmp.log[j].path = "cache" =>
            \E i \in 1..(j - 1) :
                /\ SameKeyFields(cmp.log[i].file, cmp.log[j].file)
                /\ cmp.log[i].settled = "resolved"

\* C12, as stated: once a compressImage call for (name, size, lastModified)
\* has resolved, every later call with that key is a cache hit, whatever the
\* service was asked to do in between; a call whose file differs in
\* lastModified from every earlier one is a miss.
C12_NeverEvicted ==
    /\ \A j \in 1..Len(cmp.log) : \A i \in 1..(j - 1) :
          ( /\ SameKeyFields(cmp.log[i].file, cmp.log[j].file)
            /\ cmp.log[i].settled = "resolved"
            /\ cmp.log[j].begunAt >= i ) => cmp.log[j].path = "cache"
    /\ HitsHaveSameKey

\* C12, amended: the same, for calls with no clearCache() between the
\* completion of the earlier call and the start of the later one.
C12_EvictedOnlyByClear ==
    /\ \A j \in 1..Len(cmp.log) : \A i \in 1..(j - 1) :
          ( /\ SameKeyFields(cmp.log[i].file, cmp.log[j].file)
            /\ cmp.log[i].settled = "resolved"
            /\ cmp.log[j].begunAt >= i
            /\ cmp.log[j].begunEpoch = cmp.log[i].doneEpoch ) =>
                cmp.log[j].path = "cache"
    /\ HitsHaveSameKey

C12_Witness ==
    /\ Len(cmp.log) = 2
    /\ cmp.log[1].file = BigJpg
    /\ cmp.log[1].path = "encoder"
    /\ cmp.log[1].settled = "resolved"
    /\ cmp.log[2].file = BigJpg
    /\ cmp.log[2].begunAt = 1
    /\ cmp.log[2].path = "cache"
    /\ cmp.clears = 1

\* C13: a validatePdf call never ends in a rejected promise; when the bytes
\* cannot be read or the trial load fails or times out it still resolves,
\* with a result that carries isValid, and an error whenever isValid is false.
C13_NeverRejects ==
    /\ val.pc # "rejected"
    /\ val.pc = "resolved" =>
          /\ val.result.isValid \in BOOLEAN
          /\ ~val.result.isValid => "error" \in DOMAIN val.result

C13_Witness ==
    /\ val.pc = "resolved"
    /\ val.read = "unreadable"
    /\ ~val.result.isValid
    /\ val.result.error = "unreadable"

\* C14: every result of validatePdf has requiresPassword only together with
\* isEncrypted, and carries no pageCount and no metadata when isValid is
\* false.
C14_ResultShape ==
    val.pc = "resolved" =>
        /\ val.result.requiresPassword => val.result.isEncrypted
        /\ ~val.result.isValid =>
              /\ "pageCount" \notin DOMAIN val.result
              /\ "metadata" \notin DOMAIN val.result

C14_Witness ==
    /\ val.pc = "resolved"
    /\ val.n = 2
    /\ val.file = PdfE
    /\ val.result.requiresPassword
    /\ val.result.isEncrypted

\* C15: when the load of the PDF through pdfjs fails with a message that has
\* no password, authentication or timeout marker, validatePdf resolves with
\* isValid, isEncrypted and requiresPassword all false and the message in
\* error.
C15_OtherFailureInvalid ==
    (val.pc = "resolved" /\ val.load = "Invalid PDF structure") =>
        /\ ~val.result.isValid
        /\ ~val.result.isEncrypted
        /\ ~val.result.requiresPassword
        /\ "error" \in DOMAIN val.result
        /\ val.result.error = "Invalid PDF structure"

\* C16: when the trial load fails with a password or authentication message,
\* or the 3 s wait times out, validatePdf resolves with isValid, isEncrypted
\* and requiresPassword all true.
C16_ProtectedIsValid ==
    ( /\ val.pc = "resolved"
      /\ val.load \in {"No password given", "Authentication failed", "timeout"} ) =>
        /\ val.result.isValid
        /\ val.result.isEncrypted
        /\ val.result.requiresPassword

C16_Witness ==
    /\ val.pc = "resolved"
    /\ val.load = "timeout"
    /\ val.result.requiresPassword

\* C17: when the read, load, copy or embed of any file of the list fails,
\* mergeFilesToPdf rejects with one error and returns no bytes, whatever it
\* had already appended to the document, and mergeFiles rejects too: the
\* request ends with that error and nothing is downloaded.
C17_AllOrNothing ==
    (\E k \in 1..Len(asm.codecs) : asm.codecs[k] \in {"fail", "unreadable"}) =>
        /\ asm.pc = "rejected"
        /\ asm.bytes = <<>>
        /\ asm.error # ""
        /\ req.pc = "done" =>
              /\ Len(req.merged) = 1
              /\ req.merged[1].settled = "rejected"
              /\ "bytes" \notin DOMAIN req.merged[1]
              /\ req.downloaded = <<>>
              /\ Len(req.alert) = 1

C17_Witness ==
    /\ req.pc = "done"
    /\ asm.codecs = <<"ok", "ok", "fail">>
    /\ Len(asm.pdfDoc) >= 2
    /\ asm.pc = "rejected"

\* C18: mergeFiles hands the assembler one file per entry of the list, in
\* entry order, the compressed file where the entry has one and the source
\* file otherwise; when the assembler rejects, mergeFiles rejects with an
\* error whose message contains the assembler's.
C18_MergeFilesDelegates ==
    calls.mergeFilesToPdf > 0 =>
        /\ Len(asm.files) = Len(req.snapshot)
        /\ \A k \in 1..Len(req.snapshot) :
              asm.files[k] = IF "compressedFile" \in DOMAIN req.snapshot[k]
                             THEN req.snapshot[k].compressedFile
                             ELSE req.snapshot[k].file
        /\ (req.pc = "done" /\ asm.pc = "rejected") =>
              /\ req.merged[1].settled = "rejected"
              /\ req.merged[1].error[1] = "Erro ao unificar PDFs"
              /\ req.merged[1].error[2] = asm.error

C18_Witness ==
    /\ req.pc = "done"
    /\ asm.pc = "rejected"
    /\ asm.error = "Failed to merge image file"
    /\ Len(req.snapshot) = 2
    /\ req.snapshot[1].file = PdfA
    /\ req.snapshot[2].file = BigJpg
    /\ "compressedFile" \in DOMAIN req.snapshot[2]

\* C19: after any sequence of openPreview and closePreview calls on the
\* preview service, the only object URL not yet revoked is the one of the
\* content being shown, so at most one is unrevoked: openPreview revokes the
\* URL it replaces, closePreview revokes the current one.
C19_AtMostOneLiveUrl ==
    /\ \A k \in 1..Len(urls) :
          urls[k] = "live" =>
              /\ pv.previewContent # <<>>
              /\ pv.previewContent[1].url = k
    /\ Cardinality({k \in 1..Len(urls) : urls[k] = "live"}) <= 1

C19_Witness ==
    /\ urls = <<"revoked", "revoked", "live">>
    /\ pv.isPreviewOpen
    /\ pv.previewContent[1].url = 3

\* C20: no step of PdfManager.openPreview and no closePreview changes the
\* managed-file collection, whatever the intake and the background tasks are
\* doing around it.
C20_PreviewLeavesCollection ==
    [][lastOp'.op = "preview" => managedFiles' = managedFiles]_vars

C20_Witness ==
    /\ lastOp.op = "preview"
    /\ pv.isPreviewOpen
    /\ pv.isPasswordProtected
    /\ Len(managedFiles) = 2
    /\ encoding # {}

\* C21: the ids of the entries of the collection are pairwise distinct.
C21_UniqueIds ==
    \A i \in 1..Len(managedFiles) : \A j \in 1..Len(managedFiles) :
        i # j => managedFiles[i].id # managedFiles[j].id

\* C22: every result compressImage resolves with, from the skip path, the
\* encoder path or the cache, has compressedSize <= originalSize.
C22_NeverLarger ==
    \A j \in 1..Len(cmp.log) :
        cmp.log[j].settled = "resolved" =>
            cmp.log[j].result.compressedSize <= cmp.log[j].result.originalSize

\* C23: an entry has a compressed file only in state compressed, only if it
\* is an image, and only if that file differs from its source file; it has
\* an error message only in state error.
C23_DerivedOnlyWhenChanged ==
    \A i \in 1..Len(managedFiles) :
        LET mf == managedFiles[i] IN
        /\ "compressedFile" \in DOMAIN mf =>
              /\ mf.state = "compressed"
              /\ IsImageFile(mf.file)
              /\ mf.compressedFile # mf.file
        /\ "error" \in DOMAIN mf => mf.state = "error"

\* C24: every entry's progress lies in 0..100: 0 when unprocessed, within
\* [20,80] while an image entry is compressing, 100 in a terminal state; and
\* with the encoder's callbacks non-decreasing, no step lowers the progress
\* of an entry.
C24_ProgressWindow ==
    [][ /\ \A j \in 1..Len(managedFiles') :
              LET mf == managedFiles'[j] IN
              /\ mf.progress \in 0..100
              /\ mf.state = "unprocessed" => mf.progress = 0
              /\ (mf.state = "compressing" /\ IsImageFile(mf.file)) =>
                    mf.progress \in 20..80
              /\ mf.state \in {"compressed", "error"} => mf.progress = 100
        /\ \A i \in 1..Len(managedFiles) : \A j \in 1..Len(managedFiles') :
              ghost[i].serial = ghost'[j].serial =>
                  managedFiles'[j].progress >= managedFiles[i].progress ]_vars

\* C25: a non-image entry is written unprocessed, compressing, compressed and
\* nothing else; when addFiles has returned it is compressed with progress
\* 100, the encoder was not called for it, it has no compressed file, and it
\* is never in state error.
C25_NonImagePassesThrough ==
    \A i \in 1..Len(managedFiles) :
        ~IsImageFile(managedFiles[i].file) =>
            /\ ghost[i].observed = <<"unprocessed", "compressing", "compressed">>
            /\ managedFiles[i].state = "compressed"
            /\ managedFiles[i].progress = 100
            /\ "compressedFile" \notin DOMAIN managedFiles[i]
            /\ "error" \notin DOMAIN managedFiles[i]
            /\ \A job \in encoding : job.serial # ghost[i].serial
            /\ \A k \in 1..Len(microtasks) : microtasks[k].serial # ghost[i].serial

\* C26: a background update (progress callback, success, failure) changes at
\* most the entry of the task it belongs to: the length and order of the
\* collection, every entry's id and source file, and every other entry stay
\* as they were; and the updates that start the tasks of the entries addFiles
\* appends leave the entries already in the collection as they were.
C26_UpdateReplacesOne ==
    [][ /\ lastOp'.op \in {"progress", "compressed", "failed"} =>
              /\ Len(managedFiles') = Len(managedFiles)
              /\ \A i \in 1..Len(managedFiles) :
                    /\ managedFiles'[i].id = managedFiles[i].id
                    /\ managedFiles'[i].file = managedFiles[i].file
                    /\ ghost[i].serial # lastOp'.serial =>
                          managedFiles'[i] = managedFiles[i]
        /\ lastOp'.op = "addFiles" =>
              /\ Len(managedFiles') > Len(managedFiles)
              /\ \A i \in 1..Len(managedFiles) : managedFiles'[i] = managedFiles[i]
      ]_vars

\* the background task of entry i has not finished: the encoder is running
\* for it, or its continuation is queued
TaskUnfinished(i) ==
    \/ \E job \in encoding : job.serial = ghost[i].serial
    \/ \E k \in 1..Len(microtasks) : microtasks[k].serial = ghost[i].serial

\* C30: between the tasks of the event loop no entry is unprocessed, and an
\* entry whose background task has not finished is compressing, which is the
\* state the gate of validateAndPrepareFiles rejects.
C30_UnfinishedIsCompressing ==
    \A i \in 1..Len(managedFiles) :
        /\ managedFiles[i].state # "unprocessed"
        /\ TaskUnfinished(i) =>
              /\ managedFiles[i].state = "compressing"
              /\ i \in StillCompressing(managedFiles)

\* the entries of mfs whose id is not fileId
Others(mfs, fileId) == {i \in 1..Len(mfs) : mfs[i].id # fileId}

PASSWORD_ALERT == "Os seguintes PDFs estao protegidos por senha"

\* C28, as stated: of a protected PDF and an invalid PDF in one list, the
\* one that comes first decides the error: the password error when the
\* protected PDF precedes the invalid one, the validity error when the
\* invalid PDF comes first.
C28_FirstInOrderWins ==
    req.pc = "done" =>
        \A j \in 1..Len(req.validations) :
            ~req.validations[j].isValid =>
                IF \E k \in 1..(j - 1) : req.validations[k].requiresPassword
                THEN req.alert[1][1] = PASSWORD_ALERT
                ELSE req.alert[1][1] = "PDF invalido"

\* C28, amended: an invalid PDF decides the error wherever it stands: the
\* loop stops at the first invalid PDF and the request ends with the validity
\* error naming it, also when protected PDFs precede it; the password error
\* is reported only when the whole list was validated and no PDF was invalid.
C28_InvalidWins ==
    /\ \A j \in 1..Len(req.validations) :
          ~req.validations[j].isValid =>
              /\ j = Len(req.validations)
              /\ req.pc = "done"
              /\ req.alert[1][1] = "PDF invalido"
              /\ req.alert[1][2] = PdfEntries(req.snapshot)[j].file.name
    /\ (req.pc = "done" /\ req.alert[1][1] = PASSWORD_ALERT) =>
          /\ Len(req.validations) = Len(PdfEntries(req.snapshot))
          /\ \A j \in 1..Len(req.validations) : req.validations[j].isValid
          /\ \E k \in 1..Len(req.validations) : req.validations[k].requiresPassword

C28_Witness ==
    /\ req.pc = "done"
    /\ Len(req.snapshot) = 2
    /\ req.snapshot[1].file = PdfE
    /\ req.snapshot[2].file = PdfX
    /\ Len(req.validations) = 2
    /\ req.validations[1].requiresPassword
    /\ ~req.validations[2].isValid
    /\ req.alert[1][1] = "PDF invalido"

C31_OncePerKey ==
    cmp.clears = 0 =>
        /\ \A j1 \in encoding : \A j2 \in encoding :
              SameKeyFields(j1.file, j2.file) => j1 = j2
        /\ \A j \in 1..Len(cmp.log) : \A i \in 1..(j - 1) :
              SameKeyFields(cmp.log[i].file, cmp.log[j].file) =>
                  /\ ~(cmp.log[i].path = "encoder" /\ cmp.log[j].path = "encoder")
                  /\ cmp.log[i].settled = cmp.log[j].settled
                  /\ cmp.log[i].settled = "resolved" =>
                        cmp.log[i].result = cmp.log[j].result

\* C35: after a successful merge, every entry of the merged list whose file
\* the intake filter admits has at least one page in the output.
C35_AdmittedFilesHavePages ==
    (req.pc = "done" /\ req.downloaded # <<>>) =>
        \A k \in 1..Len(req.snapshot) :
            IntakeAdmits(req.snapshot[k].file) =>
                \E n \in 1..Len(req.downloaded[1]) :
                    req.downloaded[1][n].src = req.snapshot[k].file.name

\* C38: the preview is open exactly when it has content, the password flag
\* is set only on an open preview, and closePreview, called in any state the
\* service can be in, an already closed one included, leaves it closed, with
\* no content and the flag false.
C38_SignalsConsistent ==
    /\ pv.isPreviewOpen <=> pv.previewContent # <<>>
    /\ pv.isPasswordProtected => pv.isPreviewOpen
    /\ ClosePreview(Vis).pv = [isPreviewOpen |-> FALSE, previewContent |-> <<>>,
                               isPasswordProtected |-> FALSE]

C38_Witness ==
    /\ urls = <<"revoked", "revoked">>
    /\ ~pv.isPreviewOpen
    /\ pv.previewContent = <<>>
    /\ ~pv.isPasswordProtected

\* the pending openPreview calls that settle in this step
Settling == {f \in pend : f.pc = "fileToBase64" /\ f \notin pend'
                          /\ Cardinality(pend') < Cardinality(pend)}

\* C32: when openPreview calls overlap, the one requested last decides what
\* is shown: a call that settles after a call requested later than it has
\* settled does not change the preview.
C32_LastRequestWins ==
    [][\A f \in Settling :
          (Len(urls) + Cardinality(pend) - f.n
              > Cardinality({g \in pend : g.n > f.n}))
          => pv' = pv]_vars

\* C33: when closePreview ran while an openPreview was pending and no
\* openPreview was requested afterwards, the preview is closed and no object
\* URL is live once the pending call has settled.
C33_ClosedStaysClosed ==
    [][(\E f \in Settling : f.closed)
       => /\ ~pv'.isPreviewOpen
          /\ \A k \in 1..Len(urls') : urls'[k] # "live"]_vars

\* C36: an openPreview that settles for a PDF the validator reported as
\* requiring a password leaves the preview open with isPasswordProtected
\* true, also when reading the base64 form failed; for a file that is not a
\* PDF the preview opens with the flag false and without a validator call.
C36_ProtectedFlagKept ==
    [][/\ \A f \in Settling :
             f.isProtected => (pv'.isPreviewOpen /\ pv'.isPasswordProtected)
       /\ (Len(urls') > Len(urls) /\ Settling = {})
             => /\ pv'.previewContent[1].type # PDF_TYPE
                /\ pv'.isPreviewOpen /\ ~pv'.isPasswordProtected
                /\ Cardinality(pend') = Cardinality(pend)]_vars

\* C34: an entry added while a merge request is in flight is still in the
\* collection when the request has ended with a successful merge.  (An entry
\* whose id and source file match no entry of the request's snapshot was
\* added after the snapshot was taken.)
C34_LateEntrySurvivesMerge ==
    [][(req.pc = "assembling" /\ req'.pc = "done" /\ req'.downloaded # <<>>) =>
          \A k \in 1..Len(managedFiles) :
              (\A j \in 1..Len(req.snapshot) :
                  \/ req.snapshot[j].id # managedFiles[k].id
                  \/ req.snapshot[j].file # managedFiles[k].file)
              => \E m \in 1..Len(managedFiles') : managedFiles'[m] = managedFiles[k]]_vars

\* C37: within a request the assembler is called only after
\* validateAndPrepareFiles has returned, with the files of the snapshot that
\* was validated, in its order; the snapshot does not change while the
\* request runs, whatever is added, removed or updated in the collection
\* meanwhile, and it holds no entry in state compressing.
C37_AssemblesValidatedSnapshot ==
    [][/\ req.pc # "idle" => req'.snapshot = req.snapshot
       /\ calls'.mergeFilesToPdf > 0 =>
             /\ Len(req'.returned) = 1
             /\ asm'.files = req'.returned[1].files
             /\ Len(asm'.files) = Len(req'.snapshot)
             /\ \A k \in 1..Len(req'.snapshot) :
                   /\ asm'.files[k] = SelectFile(req'.snapshot[k])
                   /\ req'.snapshot[k].state # "compressing"]_vars

C37_Witness ==
    /\ req.pc = "assembling"
    /\ asm.pc = "save"
    /\ Len(req.snapshot) = 1
    /\ req.snapshot[1].file = PdfA
    /\ asm.files = <<PdfA>>
    /\ Len(managedFiles) = 2
    /\ managedFiles[2].file = BigJpg
    /\ managedFiles[2].state = "compressing"
====
